---- MODULE Spec2Model ----
(***************************************************************************)
(* Model of the YTS search plugin (src/yts.py): the tag extraction that    *)
(* yts.search performs on its query string, the construction of the        *)
(* request URL, the first fetch, the pagination loop and the filtering of  *)
(* torrents before they are handed to prettyPrinter.                       *)
(*                                                                         *)
(* A Python str is a sequence of one-character strings; every regular      *)
(* expression of the source is matched character by character.             *)
(***************************************************************************)
EXTENDS Integers, Sequences, FiniteSets, TLC

VARIABLES query, what, search_params, search_codec, search_resolution,
          search_url, pc, first, pages, page_no, api_result, payload,
          fetches, emitted, printed, raised

vars == <<query, what, search_params, search_codec, search_resolution,
          search_url, pc, first, pages, page_no, api_result, payload,
          fetches, emitted, printed, raised>>

(***************************************************************************)
(* Characters and string primitives                                        *)
(***************************************************************************)
Digits == {"0", "1", "2", "3", "4", "5", "6", "7", "8", "9"}

Letters == {"a", "b", "c", "d", "e", "f", "g", "h", "i", "j", "k", "l", "m",
            "n", "o", "p", "q", "r", "s", "t", "u", "v", "w", "x", "y", "z",
            "D"}

WordChars == Letters \cup Digits \cup {"_"}

Whitespace == {" "}

StartsWithAt(s, i, lit) ==
    /\ i >= 1
    /\ i + Len(lit) - 1 <= Len(s)
    /\ \A k \in 1..Len(lit) : s[i + k - 1] = lit[k]

Contains(s, lit) == \E i \in 1..Len(s) : StartsWithAt(s, i, lit)

\* length of the longest run of characters of class cls that starts at s[i]
RunLen(s, i, cls) ==
    LET stops == {j \in i..Len(s) : s[j] \notin cls}
    IN  IF i > Len(s) THEN 0
        ELSE IF stops = {} THEN Len(s) - i + 1
        ELSE (CHOOSE j \in stops : \A k \in stops : j <= k) - i

\* str.strip() on the whitespace of the model's alphabet
strip(s) ==
    LET keep == {i \in 1..Len(s) : s[i] \notin Whitespace}
    IN  IF keep = {} THEN <<>>
        ELSE SubSeq(s, CHOOSE i \in keep : \A k \in keep : i <= k,
                       CHOOSE i \in keep : \A k \in keep : i >= k)

(***************************************************************************)
(* urllib.parse.unquote: every %XX escape is replaced by its character, a  *)
(* "%" that is not followed by two hexadecimal digits is left as it is.    *)
(* The table holds the escapes of the characters the tags are made of.     *)
(***************************************************************************)
UnquoteTable ==
    [h \in {<<"2", "0">>, <<"2", "5">>, <<"2", "6">>, <<"2", "E">>, <<"3", "D">>} |->
        CASE h = <<"2", "0">> -> " "
          [] h = <<"2", "5">> -> "%"
          [] h = <<"2", "6">> -> "&"
          [] h = <<"2", "E">> -> "."
          [] h = <<"3", "D">> -> "="]

RECURSIVE unquoteFrom(_, _)
unquoteFrom(s, i) ==
    IF i > Len(s) THEN <<>>
    ELSE IF /\ s[i] = "%"
            /\ i + 2 <= Len(s)
            /\ SubSeq(s, i + 1, i + 2) \in DOMAIN UnquoteTable
         THEN <<UnquoteTable[SubSeq(s, i + 1, i + 2)]>> \o unquoteFrom(s, i + 3)
         ELSE <<s[i]>> \o unquoteFrom(s, i + 1)

unquote(s) == unquoteFrom(s, 1)

(***************************************************************************)
(* The five regular expressions of yts.search.  A match is a record: len   *)
(* is the length of the matched span (0: no match at this position), g is  *)
(* group(1).                                                               *)
(***************************************************************************)
NoMatch == [len |-> 0, g |-> <<>>]

Resolutions == {<<"2", "1", "6", "0", "p">>, <<"1", "4", "4", "0", "p">>,
                <<"1", "0", "8", "0", "p">>, <<"7", "2", "0", "p">>,
                <<"4", "8", "0", "p">>, <<"2", "4", "0", "p">>, <<"3", "D">>}

ResolutionAt(s, i) ==
    LET hits == {r \in Resolutions : StartsWithAt(s, i, r)}
    IN  IF hits = {} THEN <<>> ELSE CHOOSE r \in hits : TRUE

\* r"(?:quality=)?((?:2160|1440|1080|720|480|240)p|3D)"
quality_rstring(s, i) ==
    LET lit == <<"q", "u", "a", "l", "i", "t", "y", "=">>
    IN  IF StartsWithAt(s, i, lit) /\ ResolutionAt(s, i + 8) # <<>>
        THEN [len |-> 8 + Len(ResolutionAt(s, i + 8)), g |-> ResolutionAt(s, i + 8)]
        ELSE [len |-> Len(ResolutionAt(s, i)), g |-> ResolutionAt(s, i)]

CodecNumbers == {<<"2", "6", "4">>, <<"2", "6", "5">>}

CodecBodyAt(s, i) ==
    IF /\ i >= 1
       /\ i + 3 <= Len(s)
       /\ s[i] \in {"x", "h"}
       /\ SubSeq(s, i + 1, i + 3) \in CodecNumbers
    THEN SubSeq(s, i + 1, i + 3)
    ELSE <<>>

\* r"\.?(?:x|h)(264|265)"
codec_rstring(s, i) ==
    IF StartsWithAt(s, i, <<".">>) /\ CodecBodyAt(s, i + 1) # <<>>
    THEN [len |-> 5, g |-> CodecBodyAt(s, i + 1)]
    ELSE [len |-> Len(CodecBodyAt(s, i)) + (IF CodecBodyAt(s, i) # <<>> THEN 1 ELSE 0),
          g |-> CodecBodyAt(s, i)]

RatingBodyAt(s, i) ==
    /\ StartsWithAt(s, i, <<"r", "a", "t", "i", "n", "g", "=">>)
    /\ i + 7 <= Len(s)
    /\ s[i + 7] \in Digits

\* r"(?:min(?:imum)?_)?rating=(\d)"
rating_rstring(s, i) ==
    IF StartsWithAt(s, i, <<"m", "i", "n", "i", "m", "u", "m", "_">>) /\ RatingBodyAt(s, i + 8)
    THEN [len |-> 16, g |-> <<s[i + 15]>>]
    ELSE IF StartsWithAt(s, i, <<"m", "i", "n", "_">>) /\ RatingBodyAt(s, i + 4)
    THEN [len |-> 12, g |-> <<s[i + 11]>>]
    ELSE IF RatingBodyAt(s, i)
    THEN [len |-> 8, g |-> <<s[i + 7]>>]
    ELSE NoMatch

\* r"genre=(\w+)"
genre_rstring(s, i) ==
    IF StartsWithAt(s, i, <<"g", "e", "n", "r", "e", "=">>) /\ RunLen(s, i + 6, WordChars) > 0
    THEN [len |-> 6 + RunLen(s, i + 6, WordChars),
          g |-> SubSeq(s, i + 6, i + 5 + RunLen(s, i + 6, WordChars))]
    ELSE NoMatch

\* r"&page=\d+"
search_rstring(s, i) ==
    IF StartsWithAt(s, i, <<"&", "p", "a", "g", "e", "=">>) /\ RunLen(s, i + 6, Digits) > 0
    THEN [len |-> 6 + RunLen(s, i + 6, Digits), g |-> <<>>]
    ELSE NoMatch

Patterns == {"quality", "codec", "rating", "genre", "search"}

MatchAt(pat, s, i) ==
    CASE pat = "quality" -> quality_rstring(s, i)
      [] pat = "codec"   -> codec_rstring(s, i)
      [] pat = "rating"  -> rating_rstring(s, i)
      [] pat = "genre"   -> genre_rstring(s, i)
      [] pat = "search"  -> search_rstring(s, i)

\* re.search(pattern, s): the leftmost match, NoMatch when there is none
re_search(pat, s) ==
    LET at == {i \in 1..Len(s) : MatchAt(pat, s, i).len > 0}
    IN  IF at = {} THEN NoMatch
        ELSE MatchAt(pat, s, CHOOSE i \in at : \A k \in at : i <= k)

\* re.sub(pattern, "", s): one left-to-right pass deleting the
\* non-overlapping matches
RECURSIVE re_sub_from(_, _, _)
re_sub_from(pat, s, i) ==
    IF i > Len(s) THEN <<>>
    ELSE IF MatchAt(pat, s, i).len > 0
         THEN re_sub_from(pat, s, i + MatchAt(pat, s, i).len)
         ELSE <<s[i]>> \o re_sub_from(pat, s, i + 1)

re_sub(pat, s) == re_sub_from(pat, s, 1)

(***************************************************************************)
(* Values of the search_params dict and urllib.parse.urlencode.  A value   *)
(* is a str or a set of str: [t |-> "str" or "set", items |-> <<chars>>].  *)
(* The dict is the sequence of its (key, value) pairs in insertion order.  *)
(***************************************************************************)
StrValue(s) == [t |-> "str", items |-> <<s>>]

SetValue(s) == [t |-> "set", items |-> <<s>>]

\* str(v), as urlencode applies it to a value that is not bytes
str(v) ==
    IF v.t = "str" THEN v.items[1]
    ELSE <<"{", "'">> \o v.items[1] \o <<"'", "}">>

QuoteTable ==
    [c \in {"=", "&", "%", "{", "}", "'", "+", ":", "/", "?"} |->
        CASE c = "=" -> <<"%", "3", "D">>
          [] c = "&" -> <<"%", "2", "6">>
          [] c = "%" -> <<"%", "2", "5">>
          [] c = "{" -> <<"%", "7", "B">>
          [] c = "}" -> <<"%", "7", "D">>
          [] c = "'" -> <<"%", "2", "7">>
          [] c = "+" -> <<"%", "2", "B">>
          [] c = ":" -> <<"%", "3", "A">>
          [] c = "/" -> <<"%", "2", "F">>
          [] c = "?" -> <<"%", "3", "F">>]

\* urllib.parse.quote_plus
RECURSIVE quote_plus_from(_, _)
quote_plus_from(s, i) ==
    IF i > Len(s) THEN <<>>
    ELSE (IF s[i] = " " THEN <<"+">>
          ELSE IF s[i] \in DOMAIN QuoteTable THEN QuoteTable[s[i]]
          ELSE <<s[i]>>) \o quote_plus_from(s, i + 1)

quote_plus(s) == quote_plus_from(s, 1)

RECURSIVE urlencode_from(_, _)
urlencode_from(params, i) ==
    IF i > Len(params) THEN <<>>
    ELSE (IF i > 1 THEN <<"&">> ELSE <<>>)
         \o quote_plus(params[i].k) \o <<"=">> \o quote_plus(str(params[i].v))
         \o urlencode_from(params, i + 1)

urlencode(params) == urlencode_from(params, 1)

HasKey(params, key) == \E i \in 1..Len(params) : params[i].k = key

Lookup(params, key) == params[CHOOSE i \in 1..Len(params) : params[i].k = key].v

\* params[key] = value: a new key is appended, an existing one keeps its place
SetKey(params, key, value) ==
    IF HasKey(params, key)
    THEN [i \in 1..Len(params) |->
            IF params[i].k = key THEN [k |-> key, v |-> value] ELSE params[i]]
    ELSE Append(params, [k |-> key, v |-> value])

K_quality == <<"q", "u", "a", "l", "i", "t", "y">>

K_minimum_rating == <<"m", "i", "n", "i", "m", "u", "m", "_", "r", "a", "t", "i", "n", "g">>

K_genre == <<"g", "e", "n", "r", "e">>

K_query_term == <<"q", "u", "e", "r", "y", "_", "t", "e", "r", "m">>

api_url ==
    <<"h", "t", "t", "p", "s", ":", "/", "/", "y", "t", "s", ".", "b", "z", "/",
      "a", "p", "i", "/", "v", "2", "/", "l", "i", "s", "t", "_", "m", "o", "v",
      "i", "e", "s", ".", "j", "s", "o", "n", "?">>

(***************************************************************************)
(* The tag extraction of yts.search, one operator per block of the source. *)
(* t is the record of the locals: what, search_params, search_resolution,  *)
(* search_codec (the empty string stands for None: both are falsy and no   *)
(* group of the patterns can be empty).                                    *)
(***************************************************************************)
Locals(w) == [what |-> w, search_params |-> <<>>,
              search_resolution |-> <<>>, search_codec |-> <<>>]

\* quality tagging that sets the filter but leaves the tag in the text
quality_tagging_keeps_tag(t) ==
    LET quality_re == re_search("quality", t.what)
    IN  IF quality_re.len > 0
        THEN [t EXCEPT !.search_resolution = quality_re.g,
                       !.search_params = SetKey(@, K_quality, StrValue(quality_re.g))]
        ELSE t

\* quality tagging
quality_tagging(t) ==
    LET quality_re == re_search("quality", t.what)
    IN  IF quality_re.len > 0
        THEN [t EXCEPT !.search_resolution = quality_re.g,
                       !.search_params = SetKey(@, K_quality, StrValue(quality_re.g)),
                       !.what = strip(re_sub("quality", t.what))]
        ELSE t

\* codec tagging that keeps the matched prefix letter instead of "x"
codec_tagging_keeps_prefix(t) ==
    LET codec_re == re_search("codec", t.what)
        at       == CHOOSE i \in 1..Len(t.what) :
                        /\ codec_rstring(t.what, i).len > 0
                        /\ \A k \in 1..(i - 1) : codec_rstring(t.what, k).len = 0
        codec    == <<t.what[at + codec_re.len - 4]>> \o codec_re.g
    IN  IF codec_re.len > 0
        THEN [t EXCEPT !.search_codec = codec,
                       !.search_params =
                            IF HasKey(@, K_quality)
                            THEN SetKey(@, K_quality,
                                        StrValue(str(Lookup(@, K_quality)) \o <<".">> \o codec))
                            ELSE @,
                       !.what = strip(re_sub("codec", t.what))]
        ELSE t

\* codec tagging
codec_tagging(t) ==
    LET codec_re == re_search("codec", t.what)
        codec    == <<"x">> \o codec_re.g
    IN  IF codec_re.len > 0
        THEN [t EXCEPT !.search_codec = codec,
                       !.search_params =
                            IF HasKey(@, K_quality)
                            THEN SetKey(@, K_quality,
                                        StrValue(str(Lookup(@, K_quality)) \o <<".">> \o codec))
                            ELSE @,
                       !.what = strip(re_sub("codec", t.what))]
        ELSE t

\* rating tagging
rating_tagging(t) ==
    LET rating_re == re_search("rating", t.what)
    IN  IF rating_re.len > 0
        THEN [t EXCEPT !.search_params = SetKey(@, K_minimum_rating, SetValue(rating_re.g)),
                       !.what = strip(re_sub("rating", t.what))]
        ELSE t

\* genre tagging
genre_tagging(t) ==
    LET genre_re == re_search("genre", t.what)
    IN  IF genre_re.len > 0
        THEN [t EXCEPT !.what = strip(re_sub("genre", t.what)),
                       !.search_params = SetKey(@, K_genre, StrValue(genre_re.g))]
        ELSE t

\* prevent user causing page errors
page_guard(t) == [t EXCEPT !.what = strip(re_sub("search", t.what))]

\* url finalisation: the query term, when there is one
url_finalisation(t) ==
    IF t.what # <<>>
    THEN [t EXCEPT !.search_params = SetKey(@, K_query_term, StrValue(t.what))]
    ELSE t

\* the locals of search() when it reaches its first retrieve_url
tagging(w) ==
    url_finalisation(page_guard(genre_tagging(rating_tagging(
        codec_tagging(quality_tagging(Locals(unquote(w))))))))

(***************************************************************************)
(* The remote catalog.  A payload is the JSON object retrieve_url returns; *)
(* extra tells whether an object carries a key its dataclass does not      *)
(* declare.  has_movies is FALSE when the "movies" key is absent.          *)
(***************************************************************************)
R_720p == <<"7", "2", "0", "p">>

R_1080p == <<"1", "0", "8", "0", "p">>

C_x264 == <<"x", "2", "6", "4">>

C_x265 == <<"x", "2", "6", "5">>

Torrent(u, q, c) == [url |-> u, quality |-> q, video_codec |-> c, extra |-> FALSE]

Movie(title, u, ts) == [title_long |-> title, url |-> u, torrents |-> ts, extra |-> FALSE]

M1 == Movie("Dune (2021)", "m1",
            <<Torrent("t1", R_720p, C_x264), Torrent("t2", R_720p, C_x265)>>)

M2 == Movie("Ubuntu (2004)", "m2", <<Torrent("t3", R_1080p, C_x265)>>)

\* the item lists a page of the catalog may carry
Pages == {<<>>, <<M1>>, <<M1, M2>>}

\* where a payload may carry an undeclared key
ExtraPlaces == {"none", "top", "data", "movie", "torrent"}

MarkTorrents(ts, place) ==
    [i \in 1..Len(ts) |-> [ts[i] EXCEPT !.extra = (place = "torrent")]]

MarkMovies(ms, place) ==
    [i \in 1..Len(ms) |-> [ms[i] EXCEPT !.extra = (place = "movie"),
                                        !.torrents = MarkTorrents(@, place)]]

Payload(status, count, limit, present, ms, place) ==
    [status |-> status, status_message |-> "msg", extra |-> (place = "top"),
     data |-> [movie_count |-> count, limit |-> limit, has_movies |-> present,
               movies |-> MarkMovies(ms, place), extra |-> (place = "data")]]

\* a place is listed only where the payload has an object to carry the key
PlacesOf(ms) ==
    {"none", "top", "data"}
        \cup (IF ms # <<>> THEN {"movie"} ELSE {})
        \cup (IF \E i \in 1..Len(ms) : ms[i].torrents # <<>> THEN {"torrent"} ELSE {})

NoPayload == Payload("", 0, 0, FALSE, <<>>, "none")

(***************************************************************************)
(* Decoding: convert_response and the dataclasses' __init__/__post_init__. *)
(***************************************************************************)
\* yts_torrent(**torrent) accepts the dict
yts_torrent(t) == ~t.extra

\* yts_movie(**movie) and its __post_init__ accept the dict
yts_movie(m) == ~m.extra /\ \A i \in 1..Len(m.torrents) : yts_torrent(m.torrents[i])

\* yts_data(**data) and its __post_init__ accept the dict
yts_data(d) ==
    /\ ~d.extra
    /\ (d.has_movies /\ d.movies # <<>>) => \A i \in 1..Len(d.movies) : yts_movie(d.movies[i])

\* convert_response keeps the declared top-level keys, then builds the
\* dataclasses; ok is FALSE when a constructor raises TypeError
convert_response(p) ==
    [ok |-> yts_data(p.data), status |-> p.status,
     status_message |-> p.status_message, data |-> p.data]

NoResponse == convert_response(NoPayload)

(***************************************************************************)
(* Pagination and filtering                                                *)
(***************************************************************************)
DigitChar(d) == <<"0", "1", "2", "3", "4", "5", "6", "7", "8", "9">>[d + 1]

\* str(n) for n >= 0
RECURSIVE IntStr(_)
IntStr(n) == IF n < 10 THEN <<DigitChar(n)>> ELSE IntStr(n \div 10) \o <<DigitChar(n % 10)>>

\* f"{search_url}&page={page_no + 1}"
page_url(url, n) == url \o <<"&", "p", "a", "g", "e", "=">> \o IntStr(n + 1)

\* the page count without the "+ 1"
page_count_floor(movie_count, limit) == movie_count \div limit

\* the argument of range() in the pagination loop, limit # 0
page_count(movie_count, limit) == (movie_count \div limit) + 1

\* the inner loop without its codec test
skipped_resolution_only(torrent, codec, resolution) ==
    resolution # <<>> /\ torrent.quality # resolution

\* the two "continue" tests of the inner loop
skipped(torrent, codec, resolution) ==
    \/ codec # <<>> /\ torrent.video_codec # codec
    \/ resolution # <<>> /\ torrent.quality # resolution

formatTorrent(movie, torrent) ==
    [link |-> torrent.url,
     name |-> <<movie.title_long, torrent.quality, torrent.video_codec>>,
     desc_link |-> movie.url]

RECURSIVE torrent_loop(_, _, _, _)
torrent_loop(movie, j, codec, resolution) ==
    IF j > Len(movie.torrents) THEN <<>>
    ELSE (IF skipped(movie.torrents[j], codec, resolution) THEN <<>>
          ELSE <<formatTorrent(movie, movie.torrents[j])>>)
         \o torrent_loop(movie, j + 1, codec, resolution)

\* what one page hands to prettyPrinter, in order
RECURSIVE movie_loop(_, _, _, _)
movie_loop(movies, i, codec, resolution) ==
    IF i > Len(movies) THEN <<>>
    ELSE torrent_loop(movies[i], 1, codec, resolution)
         \o movie_loop(movies, i + 1, codec, resolution)

(***************************************************************************)
(* Bounds and inputs                                                       *)
(***************************************************************************)
MaxCount == 3

MaxLimit == 2

MaxToks == 3

\* the queries the search is run with
SearchQueries ==
    {<<"d", "u", "n", "e">>,
     <<"d", "u", "n", "e", " ", "7", "2", "0", "p">>,
     <<"h", "2", "6", "5", " ", "d", "u", "n", "e">>,
     <<"d", "u", "n", "e", " ", "q", "u", "a", "l", "i", "t", "y", "=", "7", "2", "0", "p", " ", "x", "2", "6", "5">>,
     <<"x", "2", "6", "4", " ", "d", "u", "n", "e", " ", "1", "0", "8", "0", "p">>}

\* the pieces the queries of the tag extraction are put together from
Tokens ==
    {<<"d", "u", "n", "e">>,
     <<"7", "2", "0", "p">>,
     <<"q", "u", "a", "l", "i", "t", "y", "%", "3", "D", "1", "0", "8", "0", "p">>,
     <<"x", "2", "6", "5">>,
     <<".", "h", "2", "6", "4">>,
     <<"r", "a", "t", "i", "n", "g", "=", "7">>,
     <<"g", "e", "n", "r", "e", "=", "h", "o", "r", "r", "o", "r">>,
     <<"&", "p", "a", "g", "e", "=", "3">>,
     <<"7">>,
     <<"2", "0", "p">>,
     <<"x", "2", "6">>,
     <<"4", "8", "0", "p">>}

Separators == {<<>>, <<" ">>}

RECURSIVE Join(_, _, _)
Join(toks, sep, i) ==
    IF i > Len(toks) THEN <<>>
    ELSE (IF i > 1 THEN sep ELSE <<>>) \o toks[i] \o Join(toks, sep, i + 1)

ParseQueries ==
    {Join(toks, sep, 1) :
        toks \in UNION {[1..n -> Tokens] : n \in 1..MaxToks}, sep \in Separators}

(***************************************************************************)
(* search(what): the state machine.  pc is the position in search();       *)
(* fetches is the list of the URLs passed to retrieve_url, emitted the     *)
(* list of the dicts passed to prettyPrinter, printed what print() wrote,  *)
(* raised the exception that left search() ("None": none).                 *)
(***************************************************************************)
InitLocals ==
    /\ what = query
    /\ search_params = <<>>
    /\ search_codec = <<>>
    /\ search_resolution = <<>>
    /\ search_url = api_url
    /\ pc = "start"
    /\ first = NoResponse
    /\ pages = 0
    /\ page_no = 0
    /\ api_result = NoResponse
    /\ payload = NoPayload
    /\ fetches = <<>>
    /\ emitted = <<>>
    /\ printed = <<>>
    /\ raised = "None"

Init == query \in SearchQueries /\ InitLocals

InitParse == query \in ParseQueries /\ InitLocals

\* lines 114-163: tag extraction and construction of search_url
Tagging ==
    /\ pc = "start"
    /\ LET t == tagging(what)
       IN  /\ what' = t.what
           /\ search_params' = t.search_params
           /\ search_codec' = t.search_codec
           /\ search_resolution' = t.search_resolution
           /\ search_url' = search_url \o urlencode(t.search_params)
    /\ pc' = "fetch"
    /\ UNCHANGED <<query, first, pages, page_no, api_result, payload,
                   fetches, emitted, printed, raised>>

\* retrieve_url raises and search() carries on with the same fetch
transport_failure_swallowed(url) ==
    /\ fetches' = Append(fetches, url)
    /\ raised' = "TransportError"
    /\ pc' = pc
    /\ UNCHANGED <<query, what, search_params, search_codec, search_resolution,
                   search_url, first, pages, page_no, api_result, payload,
                   emitted, printed>>

\* retrieve_url raises: the exception leaves search()
transport_failure(url) ==
    /\ fetches' = Append(fetches, url)
    /\ raised' = "TransportError"
    /\ pc' = "raised"
    /\ UNCHANGED <<query, what, search_params, search_codec, search_resolution,
                   search_url, first, pages, page_no, api_result, payload,
                   emitted, printed>>

FirstFetchFails == pc = "fetch" /\ transport_failure(search_url)

\* the first response handled without the "movie_count == 0" return
first_outcome_no_empty_return(r) ==
    IF r.status # "ok" THEN "report" ELSE "paginate"

\* lines 169-173: what search() does with the decoded first response
first_outcome(r) ==
    IF r.status # "ok" THEN "report"
    ELSE IF r.data.movie_count = 0 THEN "empty"
    ELSE "paginate"

\* lines 165-173: the first fetch and the two early returns; api_result is
\* bound only when the payload decodes.  first keeps the first response.
FirstFetch ==
    /\ pc = "fetch"
    /\ \E status \in {"ok", "error"}, count \in 0..MaxCount, limit \in 0..MaxLimit,
          present \in BOOLEAN, ms \in Pages :
         \E place \in PlacesOf(ms) :
           /\ present \/ ms = <<>>
           /\ payload' = Payload(status, count, limit, present, ms, place)
    /\ fetches' = Append(fetches, search_url)
    /\ LET r == convert_response(payload')
       IN  /\ api_result' = IF r.ok THEN r ELSE api_result
           /\ first' = IF r.ok THEN r ELSE first
           /\ IF ~r.ok
              THEN raised' = "TypeError: unexpected keyword argument"
                   /\ pc' = "raised" /\ printed' = printed
              ELSE IF first_outcome(r) = "report"
              THEN printed' = Append(printed, <<r.status, r.status_message>>)
                   /\ pc' = "returned" /\ raised' = raised
              ELSE IF first_outcome(r) = "empty"
              THEN pc' = "returned" /\ raised' = raised /\ printed' = printed
              ELSE pc' = "range" /\ raised' = raised /\ printed' = printed
    /\ UNCHANGED <<query, what, search_params, search_codec, search_resolution,
                   search_url, pages, page_no, emitted>>

\* lines 175-177: range((movie_count // limit) + 1) is evaluated once
EnterLoop ==
    /\ pc = "range"
    /\ IF api_result.data.limit = 0
       THEN raised' = "ZeroDivisionError" /\ pc' = "raised" /\ pages' = pages
       ELSE pages' = page_count(api_result.data.movie_count, api_result.data.limit)
            /\ pc' = "loop" /\ raised' = raised
    /\ page_no' = 0
    /\ UNCHANGED <<query, what, search_params, search_codec, search_resolution,
                   search_url, first, api_result, payload, fetches, emitted, printed>>

LoopFetchFails ==
    /\ pc = "loop"
    /\ page_no < pages
    /\ transport_failure(page_url(search_url, page_no))

\* lines 178-197: one iteration of the pagination loop.  Of the response the
\* loop reads data.movies only; the whole page is decoded before its first
\* torrent is handed to prettyPrinter.
LoopFetch ==
    /\ pc = "loop"
    /\ page_no < pages
    /\ \E present \in BOOLEAN, ms \in Pages :
         \E place \in PlacesOf(ms) :
           /\ present \/ ms = <<>>
           /\ payload' = Payload("ok", first.data.movie_count, first.data.limit,
                                 present, ms, place)
    /\ fetches' = Append(fetches, page_url(search_url, page_no))
    /\ LET r == convert_response(payload')
       IN  /\ api_result' = IF r.ok THEN r ELSE api_result
           /\ IF ~r.ok
              THEN raised' = "TypeError: unexpected keyword argument"
                   /\ pc' = "raised" /\ emitted' = emitted /\ page_no' = page_no
              ELSE IF ~r.data.has_movies
              THEN raised' = "TypeError: 'NoneType' object is not iterable"
                   /\ pc' = "raised" /\ emitted' = emitted /\ page_no' = page_no
              ELSE emitted' = emitted \o movie_loop(r.data.movies, 1, search_codec,
                                                    search_resolution)
                   /\ page_no' = page_no + 1 /\ pc' = "loop" /\ raised' = raised
    /\ UNCHANGED <<query, what, search_params, search_codec, search_resolution,
                   search_url, first, pages, printed>>

\* the range is exhausted: search() returns
LoopExit ==
    /\ pc = "loop"
    /\ page_no = pages
    /\ pc' = "returned"
    /\ UNCHANGED <<query, what, search_params, search_codec, search_resolution,
                   search_url, first, pages, page_no, api_result, payload,
                   fetches, emitted, printed, raised>>

Next ==
    \/ Tagging
    \/ FirstFetchFails
    \/ FirstFetch
    \/ EnterLoop
    \/ LoopFetchFails
    \/ LoopFetch
    \/ LoopExit

Spec == Init /\ [][Next]_vars

NextParse == Tagging

SpecParse == InitParse /\ [][NextParse]_vars

(***************************************************************************)
(* Vocabulary of the properties                                            *)
(***************************************************************************)
\* the query as search() sees it after percent-decoding
decoded == unquote(query)

HasTag(pat, s) == \E i \in 1..Len(s) : MatchAt(pat, s, i).len > 0

\* group(1) of the leftmost occurrence of a tag, the empty string without one
FirstTag(pat, s) ==
    IF ~HasTag(pat, s) THEN <<>>
    ELSE LET i == CHOOSE i \in 1..Len(s) :
                      /\ MatchAt(pat, s, i).len > 0
                      /\ \A k \in 1..(i - 1) : MatchAt(pat, s, k).len = 0
         IN  MatchAt(pat, s, i).g

\* the whitespace-delimited tokens of s
TokensOf(s) ==
    {SubSeq(s, ij[1], ij[2]) : ij \in
        {ij \in (1..Len(s)) \X (1..Len(s)) :
            /\ ij[1] <= ij[2]
            /\ \A k \in ij[1]..ij[2] : s[k] \notin Whitespace
            /\ ij[1] = 1 \/ s[ij[1] - 1] \in Whitespace
            /\ ij[2] = Len(s) \/ s[ij[2] + 1] \in Whitespace}}

\* the token is one tag from end to end and holds no tag of another kind
TagToken(tok) ==
    \E pat \in Patterns :
        /\ MatchAt(pat, tok, 1).len = Len(tok)
        /\ \A other \in Patterns \ {pat} : ~HasTag(other, tok)

PlainToken(tok) == \A pat \in Patterns : ~HasTag(pat, tok)

\* the tags of s are whitespace-separated tokens
WellSeparated(s) == \A tok \in TokensOf(s) : TagToken(tok) \/ PlainToken(tok)

Count(seq, x) == Cardinality({k \in 1..Len(seq) : seq[k] = x})

\* the first response decoded with status ok, movie_count > 0 and limit > 0
FirstPaginates ==
    /\ first.ok
    /\ first.status = "ok"
    /\ first.data.movie_count > 0
    /\ first.data.limit > 0

Dune == <<"d", "u", "n", "e">>

(***************************************************************************)
(* Properties                                                              *)
(***************************************************************************)

ParsedResolution == FirstTag("quality", decoded)

ParsedCodec ==
    IF HasTag("codec", decoded) THEN <<"x">> \o FirstTag("codec", decoded) ELSE <<>>

Passes(torrent) ==
    /\ ParsedCodec = <<>> \/ torrent.video_codec = ParsedCodec
    /\ ParsedResolution = <<>> \/ torrent.quality = ParsedResolution

\* what the step from emitted to emitted' appended
Appended(before, after) == SubSeq(after, Len(before) + 1, Len(after))

PairsOf(movies) ==
    UNION {{<<i, j>> : j \in 1..Len(movies[i].torrents)} : i \in 1..Len(movies)}

\* C2: every page the loop processes hands a (movie, torrent) pair to
\* prettyPrinter exactly once if the torrent passes the codec test and the
\* resolution test (against the resolution tag itself), and never otherwise.
C2_FilteredEmission ==
    [][(pc = "loop" /\ page_no' = page_no + 1) =>
          LET movies == api_result'.data.movies
              new    == Appended(emitted, emitted')
          IN  /\ SubSeq(emitted', 1, Len(emitted)) = emitted
              /\ \A ij \in PairsOf(movies) :
                    Count(new, formatTorrent(movies[ij[1]], movies[ij[1]].torrents[ij[2]]))
                        = IF Passes(movies[ij[1]].torrents[ij[2]]) THEN 1 ELSE 0
              /\ \A k \in 1..Len(new) :
                    \E ij \in PairsOf(movies) :
                        new[k] = formatTorrent(movies[ij[1]], movies[ij[1]].torrents[ij[2]])
      ]_vars

\* codec x265 and resolution 720p both parsed, the compound string sent
\* upstream: of the movie's x264 and x265 torrents only the x265 one is out
C2_Witness ==
    /\ pc = "loop"
    /\ page_no = 1
    /\ HasKey(search_params, K_quality)
    /\ Lookup(search_params, K_quality) = StrValue(R_720p \o <<".">> \o C_x265)
    /\ api_result.data.movies = <<M1>>
    /\ emitted = <<formatTorrent(M1, M1.torrents[2])>>

\* C3: a result is emitted or a second fetch issued only after a first
\* response with status ok and movie_count > 0; otherwise search() returns
\* without an exception after one fetch and no emission, and a status message
\* is reported exactly when the status is not ok.
C3_EarlyReturn ==
    /\ (Len(fetches) >= 2 \/ emitted # <<>>)
          => (first.ok /\ first.status = "ok" /\ first.data.movie_count > 0)
    /\ (first.ok /\ first.status # "" /\ ~(first.status = "ok" /\ first.data.movie_count > 0))
          => /\ pc = "returned"
             /\ raised = "None"
             /\ Len(fetches) = 1
             /\ emitted = <<>>
             /\ first.status # "ok" => printed = <<<<first.status, first.status_message>>>>
             /\ first.status = "ok" => printed = <<>>

\* an error response whose movie_count is positive: reported, nothing fetched
\* or emitted afterwards
C3_Witness ==
    /\ pc = "returned"
    /\ first.status = "error"
    /\ first.data.movie_count > 0
    /\ Len(printed) = 1
    /\ Len(fetches) = 1

\* C4 as stated: a query with a resolution tag and a codec tag sends
\* "<res>.x<264|265>" as quality and neither tag is left in the free text.
C4_CompoundAsStated ==
    (pc = "fetch" /\ HasTag("quality", decoded) /\ HasTag("codec", decoded)) =>
        /\ HasKey(search_params, K_quality)
        /\ \E res \in Resolutions, n \in CodecNumbers :
              Lookup(search_params, K_quality) = StrValue(res \o <<".", "x">> \o n)
        /\ ~HasTag("quality", what)
        /\ ~HasTag("codec", what)

\* C4 amended: when the tags of the query are whitespace-separated tokens,
\* in either order, the quality parameter is the leftmost resolution tag,
\* a dot, and "x" with the number of the leftmost codec tag, it is what the
\* URL carries, and neither tag is left in the free text.
C4_CompoundQuality ==
    (/\ pc = "fetch"
     /\ HasTag("quality", decoded)
     /\ HasTag("codec", decoded)
     /\ WellSeparated(decoded)) =>
        /\ HasKey(search_params, K_quality)
        /\ Lookup(search_params, K_quality)
              = StrValue(FirstTag("quality", decoded) \o <<".", "x">> \o FirstTag("codec", decoded))
        /\ StartsWithAt(search_url, Len(api_url) + 1,
                        K_quality \o <<"=">> \o FirstTag("quality", decoded)
                                  \o <<".", "x">> \o FirstTag("codec", decoded))
        /\ ~HasTag("quality", what)
        /\ ~HasTag("codec", what)

\* ".h264 dune 720p": the codec comes first and is written with h
C4_Witness ==
    /\ pc = "fetch"
    /\ decoded = <<".", "h", "2", "6", "4", " ", "d", "u", "n", "e", " ", "7", "2", "0", "p">>
    /\ WellSeparated(decoded)
    /\ Lookup(search_params, K_quality) = StrValue(R_720p \o <<".">> \o C_x264)
    /\ what = Dune

\* C5: a query with a rating tag of digit d sends minimum_rating=d.
C5_RatingDigit ==
    (pc = "fetch" /\ HasTag("rating", decoded)) =>
        /\ HasKey(search_params, K_minimum_rating)
        /\ Lookup(search_params, K_minimum_rating) = StrValue(FirstTag("rating", decoded))
        /\ Contains(search_url, K_minimum_rating \o <<"=">> \o FirstTag("rating", decoded))

\* some object of the payload carries an undeclared key
HasExtra(p) ==
    \/ p.extra
    \/ p.data.extra
    \/ \E i \in 1..Len(p.data.movies) :
          \/ p.data.movies[i].extra
          \/ \E j \in 1..Len(p.data.movies[i].torrents) : p.data.movies[i].torrents[j].extra

\* C6: no payload is rejected because of a key the dataclasses do not
\* declare, at the top level, in data, in a movie or in a torrent.
C6_ExtraFieldsIgnored ==
    HasExtra(payload) => raised # "TypeError: unexpected keyword argument"

\* C7: a first response with status ok, movie_count > 0 and limit = 0 does
\* not end in a division by zero.
C7_NoDivisionByZero ==
    (first.ok /\ first.status = "ok" /\ first.data.movie_count > 0 /\ first.data.limit = 0)
        => raised # "ZeroDivisionError"

\* C8: the step in which a fetch fails emits nothing and ends the search;
\* after it nothing is fetched and the emitted results stay as they are.
C8_TransportAbort ==
    [][/\ (raised = "None" /\ raised' = "TransportError")
            => (emitted' = emitted /\ pc' = "raised" /\ Len(fetches') = Len(fetches) + 1)
       /\ raised = "TransportError" => (fetches' = fetches /\ emitted' = emitted)
      ]_vars

\* the fetch of a later page failed after an earlier page had emitted
C8_Witness ==
    /\ raised = "TransportError"
    /\ pc = "raised"
    /\ Len(fetches) >= 3
    /\ emitted # <<>>

\* C9 as stated: a query with a resolution tag sets the filter to the
\* leftmost tag and leaves no match of the resolution pattern in the free text.
C9_ResolutionAsStated ==
    (pc = "fetch" /\ HasTag("quality", decoded)) =>
        /\ search_resolution = FirstTag("quality", decoded)
        /\ ~HasTag("quality", what)

\* C9 amended: the filter is the leftmost resolution tag; the free text holds
\* no match of the resolution pattern when the tags of the query are
\* whitespace-separated tokens.
C9_ResolutionExtracted ==
    (pc = "fetch" /\ HasTag("quality", decoded)) =>
        /\ search_resolution = FirstTag("quality", decoded)
        /\ HasKey(search_params, K_quality)
        /\ WellSeparated(decoded) => ~HasTag("quality", what)

\* "quality=1080p dune 720p": two tags, the leftmost one wins, both are gone
C9_Witness ==
    /\ pc = "fetch"
    /\ decoded = <<"q", "u", "a", "l", "i", "t", "y", "=", "1", "0", "8", "0", "p", " ",
                   "d", "u", "n", "e", " ", "7", "2", "0", "p">>
    /\ search_resolution = R_1080p
    /\ what = Dune

\* C10: a page of the loop without items (movies absent or empty) raises
\* nothing: the loop goes on to the next page or search() returns.
C10_EmptyPageCompletes ==
    (/\ Len(fetches) >= 2
     /\ ~HasExtra(payload)
     /\ ~payload.data.has_movies \/ payload.data.movies = <<>>)
        => raised \in {"None", "TransportError"}

====
